---- MODULE Spec2Model ----
(***************************************************************************)
(* A model of weather_monitor.py (location cache, forecast cache, snapshot *)
(* builder) and of the historical accumulator of test_historical.py.       *)
(*                                                                         *)
(* Conventions                                                             *)
(*  - a place name is a Python str, modelled as the sequence of its code   *)
(*    points, so that sorted() and "|".join() are computed, not assumed;   *)
(*  - a probability of precipitation (pop) is a fixed-point number in      *)
(*    units of 1/10000 (0.70 is 7000, 0.6999 is 6999);                     *)
(*  - time.time() is an integer number of seconds (clock);                 *)
(*  - Python's None is the empty value None == <<>>;                       *)
(*  - a JSON file is a record with a kind: "absent" (no file), "corrupt"   *)
(*    (json.load raises JSONDecodeError) or the kind of its payload;       *)
(*  - the file system is reliable: save_json's except branch (a failed     *)
(*    write) is not modelled.                                              *)
(***************************************************************************)
EXTENDS Integers, Sequences, FiniteSets, TLC

VARIABLES
    API_KEY,          \* os.environ.get("OPENWEATHER_API_KEY") is set
    LOCATIONS,        \* the configured list of place names
    clock,            \* time.time()
    locFile,          \* location_cache.json
    fcFile,           \* forecast_cache.json
    wdFile,           \* weather_data.json
    pc,               \* position of main: "idle", "loop"
    locations_data,   \* main: location_cache["locations"], in iteration order
    idx,              \* main: index of the next item of locations_data
    weather_results,  \* main: the list being assembled
    runs,             \* number of runs of main started so far
    exit,             \* how the last run of main ended
    pre,              \* the artifacts and the configuration the run started with
    builds,           \* build_location_cache invocations in this run
    geoLog,           \* names passed to geolocator.geocode in this run, in order
    geoOk,            \* for each of them: geocode returned a location
    io,               \* load_json and save_json calls of this run, per artifact
    procLog,          \* per processed location: what the two fetches did
    histFile,         \* historical_data.json
    histLog,          \* snapshots appended so far by the accumulator
    histPrev,         \* historical_data.json before the last accumulator run
    series,           \* a forecast series the provider returns
    result,           \* what fetch_rain_probability made of it
    attempts,         \* what geocode does for each configured name of a rebuild
    built             \* what build_location_cache made of it

vars == <<API_KEY, LOCATIONS, clock, locFile, fcFile, wdFile, pc, locations_data,
          idx, weather_results, runs, exit, pre, builds, geoLog, geoOk, io, procLog,
          histFile, histLog, histPrev, series, result, attempts, built>>

mainVars == <<API_KEY, LOCATIONS, clock, locFile, fcFile, wdFile, pc, locations_data,
              idx, weather_results, runs, exit, pre, builds, geoLog, geoOk, io, procLog>>
histVars == <<histFile, histLog, histPrev>>
riskVars == <<series, result>>
geoVars == <<attempts, built>>

None == <<>>

\* no file has been loaded or saved
NoIO == [loc_loads |-> 0, loc_saves |-> 0, fc_loads |-> 0, fc_saves |-> 0, wd_saves |-> 0]

-----------------------------------------------------------------------------
(* Bounds of the model *)

MaxRuns == 1      \* runs of main in one behaviour
MaxSeries == 5    \* longest forecast series of SpecRisk
MaxHist == 4      \* accumulator runs in one behaviour of SpecHist

-----------------------------------------------------------------------------
(* Place names: "A", "B" and "A|B" *)

NameA == <<65>>
NameB == <<66>>
NameAB == <<65, 124, 66>>
Names == {NameA, NameB, NameAB}

\* a < b on Python str: lexicographic by code point
StrLess(a, b) ==
    \E i \in 1..(Len(a) + 1) :
        /\ i - 1 <= Len(b)
        /\ \A j \in 1..(i - 1) : a[j] = b[j]
        /\ \/ i = Len(a) + 1 /\ Len(b) > Len(a)
           \/ i <= Len(a) /\ i <= Len(b) /\ a[i] < b[i]

\* sorted(): stable, ascending
InsertSorted(x, s) ==
    LET k == Cardinality({i \in 1..Len(s) : ~StrLess(x, s[i])})
    IN  SubSeq(s, 1, k) \o <<x>> \o SubSeq(s, k + 1, Len(s))

RECURSIVE sorted(_)
sorted(l) ==
    IF l = <<>> THEN <<>>
    ELSE InsertSorted(l[Len(l)], sorted(SubSeq(l, 1, Len(l) - 1)))

\* "|".join(l)
RECURSIVE join(_)
join(l) ==
    IF l = <<>> THEN <<>>
    ELSE IF Len(l) = 1 THEN l[1]
    ELSE l[1] \o <<124>> \o join(Tail(l))

\* hashlib.sha256(...).hexdigest(): collision-free on the strings of the model
sha256(bytes) == <<"sha256", bytes>>

\* a fingerprint of the list as configured
hash_locations_unsorted(locations) == sha256(join(locations))
\* hash_locations, line 68
hash_locations(locations) == sha256(join(sorted(locations)))

-----------------------------------------------------------------------------
(* Durable JSON store *)

EmptyDict == [kind |-> "empty"]

\* load_json: {} when the file is absent or does not parse
load_json(file) ==
    IF file.kind \in {"absent", "corrupt"} THEN EmptyDict ELSE file

AbsentFile == [kind |-> "absent"]
CorruptFile == [kind |-> "corrupt"]

\* the JSON text of a location cache {"version": v, "locations": {...}};
\* the mapping keeps its insertion order: locs is a sequence of
\* [place, lat, lon] with distinct places
LocCache(v, locs) == [kind |-> "dict", version |-> v, locations |-> locs]

\* the JSON text of a forecast cache {place: {"timestamp": t, "data": {...}}}
FcCache(entries) == [kind |-> "dict", entries |-> entries]

\* the JSON text of an array
JsonArray(items) == [kind |-> "list", items |-> items]

\* a forecast cache entry that is a JSON number and not an object
ScalarEntry == [scalar |-> 5]
IsMapping(entry) == "scalar" \notin DOMAIN entry

NoEntries == [p \in {} |-> None]

\* forecast_cache as a mapping, whatever load_json returned
EntriesOf(cache) == IF cache.kind = "dict" THEN cache.entries ELSE NoEntries

-----------------------------------------------------------------------------
(* Forecast summary: fetch_rain_probability, lines 196-218 *)

FORECAST_REFRESH_INTERVAL == 7200

\* one item of the provider's "list": a record that may lack "pop"
Item(p) == [pop |-> p, dt |-> 0]
ItemNoPop == [dt |-> 0]

\* item.get("pop", 0)
PopOf(item) == IF "pop" \in DOMAIN item THEN item.pop ELSE 0

\* forecast_list[:4]
First4(forecast_list) ==
    SubSeq(forecast_list, 1, IF Len(forecast_list) < 4 THEN Len(forecast_list) ELSE 4)

\* the whole series
AllOf(forecast_list) == forecast_list

\* max((item.get("pop", 0) for item in next_12h), default=0)
MaxPop(next_12h) ==
    IF next_12h = <<>> THEN 0
    ELSE LET pops == {PopOf(next_12h[i]) : i \in 1..Len(next_12h)}
         IN  CHOOSE m \in pops : \A q \in pops : q <= m

\* bands that exclude their lower bound
RiskOfExclusive(max_pop) ==
    IF max_pop > 7000 THEN "HIGH"
    ELSE IF max_pop > 4000 THEN "MODERATE"
    ELSE "LOW"

\* the if/elif/else on max_pop >= 0.7, >= 0.4
RiskOf(max_pop) ==
    IF max_pop >= 7000 THEN "HIGH"
    ELSE IF max_pop >= 4000 THEN "MODERATE"
    ELSE "LOW"

\* int(max_pop * 100) in place of round
RoundPercentTruncating(max_pop) == max_pop \div 100

\* round(max_pop * 100): Python rounds a half to the even integer.  (The
\* float product differs from the exact one for 0.545 and 0.575 only, which
\* are not among the pops of the model.)
RoundPercent(max_pop) ==
    LET q == max_pop \div 100
        r == max_pop % 100
    IN  IF r > 50 \/ (r = 50 /\ q % 2 = 1) THEN q + 1 ELSE q

Summary(max_pop) ==
    [max_rain_prob |-> RoundPercent(max_pop), risk_level |-> RiskOf(max_pop)]

\* a summary for the empty series too: max(..., default=0)
SummarizeDefault(forecast_list) == Summary(MaxPop(First4(forecast_list)))

\* lines 197-218: None when the series is empty, else the summary
Summarize(forecast_list) ==
    LET next_12h == First4(forecast_list)
    IN  IF next_12h = <<>> THEN None ELSE Summary(MaxPop(next_12h))

-----------------------------------------------------------------------------
(* Forecast cache manager: fetch_rain_probability, lines 170-234 *)

\* a window that includes its end
IsFreshInclusive(entry, now) ==
    /\ now - entry.timestamp <= FORECAST_REFRESH_INTERVAL
    /\ "max_rain_prob" \in DOMAIN entry.data
    /\ "risk_level" \in DOMAIN entry.data

\* line 185
IsFresh(entry, now) ==
    /\ now - entry.timestamp < FORECAST_REFRESH_INTERVAL
    /\ "max_rain_prob" \in DOMAIN entry.data
    /\ "risk_level" \in DOMAIN entry.data

\* a mapping that keeps the new entry alone
PutEntryOnly(entries, place, entry) == [q \in {place} |-> entry]

\* forecast_cache[place] = {...}
PutEntry(entries, place, entry) ==
    [q \in (DOMAIN entries) \cup {place} |-> IF q = place THEN entry ELSE entries[q]]

\* a failure that evicts the entry it could not refresh
FileAfterFailureEvicting(file, place) ==
    LET entries == EntriesOf(load_json(file))
    IN  IF place \in DOMAIN entries
        THEN FcCache([q \in (DOMAIN entries) \ {place} |-> entries[q]])
        ELSE file

\* lines 200-203 and 228-234: the warning and the except clauses return None
\* and write nothing
FileAfterFailure(file, place) == file

\* a hit that writes the file back
ServedFromCacheRewriting(entry, file, cached) ==
    [ret |-> entry.data, file |-> file, called |-> FALSE, saved |-> TRUE, loads |-> 1,
     cached |-> cached, raised |-> FALSE]

\* lines 185-186: the cached summary is returned, nothing is fetched or saved
ServedFromCache(entry, file, cached) ==
    [ret |-> entry.data, file |-> file, called |-> FALSE, saved |-> FALSE, loads |-> 1,
     cached |-> cached, raised |-> FALSE]

\* The provider's answer: [kind |-> "error"] (raise_for_status, timeout, any
\* exception) or [kind |-> "ok", list |-> data.get("list", [])].
\* The result: what is returned, the file afterwards, whether the provider
\* was called and the file written, the number of load_json calls (line 176)
\* and the entry forecast_cache.get(place) found (None when there is none).
\* Lines 179-181 are outside the try statement: forecast_cache.get on a JSON
\* array and cached_entry.get on an entry that is not an object raise
\* AttributeError out of the function (raised).
fetch_rain_probability(place, now, file, resp) ==
    LET loaded == load_json(file)
        entries == EntriesOf(loaded)
        cached == IF place \in DOMAIN entries THEN <<entries[place]>> ELSE None
        failed == [ret |-> None, file |-> FileAfterFailure(file, place), called |-> TRUE,
                   saved |-> FALSE, loads |-> 1, cached |-> cached, raised |-> FALSE]
        escaped == [ret |-> None, file |-> file, called |-> FALSE, saved |-> FALSE,
                    loads |-> 1, cached |-> cached, raised |-> TRUE]
    IN  IF loaded.kind = "list" THEN escaped
        ELSE IF place \in DOMAIN entries /\ ~IsMapping(entries[place]) THEN escaped
        ELSE IF place \in DOMAIN entries /\ IsFresh(entries[place], now)
        THEN ServedFromCache(entries[place], file, cached)
        ELSE IF resp.kind = "error" THEN failed
        ELSE LET s == Summarize(resp.list)
             IN  IF s = None THEN failed
                 ELSE [ret |-> s,
                       file |-> FcCache(PutEntry(entries, place,
                                                 [timestamp |-> now, data |-> s])),
                       called |-> TRUE, saved |-> TRUE, loads |-> 1, cached |-> cached,
                       raised |-> FALSE]

-----------------------------------------------------------------------------
(* Location cache manager: lines 91-130 *)

\* what geolocator.geocode(place, timeout=10) does: a location, None, or a raise
GeoOutcomes == {"found", "none", "timeout", "error"}

\* the coordinates the provider knows for a place
Coords(place) == [lat |-> Len(place), lon |-> place[1]]

PlacesOf(locs) == {locs[i].place : i \in 1..Len(locs)}

\* cache["locations"][place] = {...} on an insertion-ordered mapping
SetLoc(locs, place, c) ==
    IF place \in PlacesOf(locs)
    THEN [i \in 1..Len(locs) |->
            IF locs[i].place = place
            THEN [place |-> place, lat |-> c.lat, lon |-> c.lon] ELSE locs[i]]
    ELSE Append(locs, [place |-> place, lat |-> c.lat, lon |-> c.lon])

\* the calls of one iteration, in order: geolocator.geocode(place), then
\* time.sleep(1), which a raise of geocode skips (both are in the try block)
GeoCall(place) == [op |-> "geocode", place |-> place]
Sleep == [op |-> "sleep"]
IterationEvents(place, o) ==
    IF o \in {"found", "none"} THEN <<GeoCall(place), Sleep>> ELSE <<GeoCall(place)>>

\* one iteration of the loop of lines 97-109: the entries, the names
\* geocoded (in order), the number of time.sleep(1) reached, the calls made
GeocodeStep(acc, place, o) ==
    [locs |-> IF o = "found" THEN SetLoc(acc.locs, place, Coords(place)) ELSE acc.locs,
     log |-> Append(acc.log, place),
     ok |-> Append(acc.ok, o = "found"),
     sleeps |-> IF o \in {"found", "none"} THEN acc.sleeps + 1 ELSE acc.sleeps,
     events |-> acc.events \o IterationEvents(place, o)]

\* a loop that a raise of the geocoder ends
RECURSIVE GeocodeLoopAborting(_, _, _, _)
GeocodeLoopAborting(locations, outcome, i, acc) ==
    IF i > Len(locations) THEN acc
    ELSE IF outcome[i] \in {"timeout", "error"}
         THEN GeocodeStep(acc, locations[i], outcome[i])
         ELSE GeocodeLoopAborting(locations, outcome, i + 1,
                                  GeocodeStep(acc, locations[i], outcome[i]))

\* the loop of lines 97-109 from the i-th configured name on
RECURSIVE GeocodeLoop(_, _, _, _)
GeocodeLoop(locations, outcome, i, acc) ==
    IF i > Len(locations) THEN acc
    ELSE GeocodeLoop(locations, outcome, i + 1,
                     GeocodeStep(acc, locations[i], outcome[i]))

\* build_location_cache: the cache it saves and returns, with the calls made
\* and the values passed to save_json(LOCATION_CACHE_FILE, .)
build_location_cache(locations, outcome) ==
    LET r == GeocodeLoop(locations, outcome, 1,
                         [locs |-> <<>>, log |-> <<>>, ok |-> <<>>, sleeps |-> 0,
                          events |-> <<>>])
        cache == LocCache(hash_locations(locations), r.locs)
    IN  [cache |-> cache, log |-> r.log, ok |-> r.ok, sleeps |-> r.sleeps,
         events |-> r.events,
         saves |-> <<cache>>]

\* a validity check without the integrity check of line 125
NeedsRebuildVersionOnly(cache, locations) ==
    \/ cache.kind # "dict"
    \/ cache.version # hash_locations(locations)

\* a check that never serves the cache
NeedsRebuildAlways(cache, locations) == TRUE

\* lines 120 and 125: the loaded cache cannot be served ("not cache" is true
\* of {} and of [])
NeedsRebuild(cache, locations) ==
    \/ cache.kind # "dict"
    \/ cache.version # hash_locations(locations)
    \/ ~ \A i \in 1..Len(locations) : locations[i] \in PlacesOf(cache.locations)

\* get_location_cache: the cache returned, the file afterwards, the calls
\* made; on a non-empty JSON array cache.get of line 120 raises AttributeError
get_location_cache(file, locations, outcome) ==
    LET cache == load_json(file)
    IN  IF cache.kind = "list" /\ cache.items # <<>>
        THEN [cache |-> cache, file |-> file, builds |-> 0, log |-> <<>>, ok |-> <<>>,
              sleeps |-> 0, loads |-> 1, saves |-> 0, raised |-> TRUE]
        ELSE IF NeedsRebuild(cache, locations)
        THEN LET b == build_location_cache(locations, outcome)
             IN  [cache |-> b.cache, file |-> b.cache, builds |-> 1,
                  log |-> b.log, ok |-> b.ok, sleeps |-> b.sleeps,
                  loads |-> 1, saves |-> Len(b.saves), raised |-> FALSE]
        ELSE [cache |-> cache, file |-> file, builds |-> 0, log |-> <<>>, ok |-> <<>>,
              sleeps |-> 0, loads |-> 1, saves |-> 0, raised |-> FALSE]

-----------------------------------------------------------------------------
(* Current weather: fetch_weather, lines 135-168 (called with API_KEY set) *)

Some(v) == <<v>>

\* str.capitalize() on the descriptions of the model
Capitalize(d) ==
    CASE d = "clear sky" -> "Clear sky"
      [] d = "light rain" -> "Light rain"
      [] OTHER -> d

\* The provider's answer: [kind |-> "error"] (connection error, HTTP status),
\* [kind |-> "nomain"] (a body without "main": KeyError) or a body with
\* optional "wind" and "clouds".
WeatherResponses ==
    {[kind |-> "error"], [kind |-> "nomain"],
     [kind |-> "ok", temp |-> 28, feels_like |-> 32, temp_min |-> 27, temp_max |-> 30,
      humidity |-> 75, wind |-> Some(3), clouds |-> None, description |-> "clear sky"]}

fetch_weather(resp) ==
    IF resp.kind # "ok" THEN None
    ELSE [temp |-> resp.temp, feels_like |-> resp.feels_like,
          temp_min |-> resp.temp_min, temp_max |-> resp.temp_max,
          humidity |-> resp.humidity,
          wind_speed |-> IF resp.wind = None THEN 0 ELSE resp.wind[1],
          clouds |-> IF resp.clouds = None THEN 0 ELSE resp.clouds[1],
          description |-> Capitalize(resp.description)]

-----------------------------------------------------------------------------
(* Snapshot builder: main, lines 239-311 *)

\* the forecast provider's answers of the pipeline
ForecastResponses ==
    {[kind |-> "error"],
     [kind |-> "ok", list |-> <<>>],
     [kind |-> "ok", list |-> <<ItemNoPop, Item(0)>>],
     [kind |-> "ok", list |-> <<Item(3999), Item(7000)>>]}

\* seconds between the end of one run and the start of the next
Gaps == {7198, 7199}

\* seconds a location's weather fetch takes
Elapsed == {1}

\* what geocode does in a run of the pipeline: a location, None or a raise
\* (which of the exceptions is raised makes no difference to main)
RunOutcomes == {"found", "none", "timeout"}

\* the configured lists of the pipeline
Configs == {<<NameA, NameB>>, <<NameB, NameA>>, <<NameAB>>}

\* a default of LOW
RiskOrLow(rain) == IF rain # None THEN rain.risk_level ELSE "LOW"

\* the "risk" of lines 271 and 292
RiskField(rain) == IF rain # None THEN rain.risk_level ELSE "UNKNOWN"

\* lines 262-296: one LocationResult; an absent value is None
LocationResult(place, weather, rain) ==
    [place |-> place,
     temp |-> IF weather # None THEN Some(weather.temp) ELSE None,
     feels_like |-> IF weather # None THEN Some(weather.feels_like) ELSE None,
     humidity |-> IF weather # None THEN Some(weather.humidity) ELSE None,
     wind_speed |-> IF weather # None THEN Some(weather.wind_speed) ELSE None,
     clouds |-> IF weather # None THEN Some(weather.clouds) ELSE None,
     description |-> IF weather # None THEN Some(weather.description) ELSE None,
     rain_probability |-> IF rain # None THEN Some(rain.max_rain_prob) ELSE None,
     risk |-> RiskField(rain)]

\* a run that does not look at the credential
KeyMissingProceeds(key) == TRUE

\* line 240: the run goes on only with the credential
CredentialOK(key) == key

\* a run that goes on without locations
NoLocationsIgnored(locations) == FALSE

\* line 248: "if not locations_data"
NoLocations(locations) == locations = <<>>

\* a handler that saves what was assembled so far
SnapshotAfterCrashPartial(wd, results, now) ==
    [kind |-> "dict", generated_at |-> now, locations |-> results]

\* lines 310-311: the handler logs the error; weather_data.json is not written
SnapshotAfterCrash(wd, results, now) == wd

\* a list without the results that carry no data
AppendResultIfData(results, r) ==
    IF r.temp = None /\ r.rain_probability = None THEN results ELSE Append(results, r)

\* line 299: weather_results.append(location_result)
AppendResult(results, r) == Append(results, r)

\* line 257: coords["lat"], coords["lon"]
HasCoords(coords) == "lat" \in DOMAIN coords /\ "lon" \in DOMAIN coords

Artifacts ==
    [loc |-> locFile, fc |-> fcFile, wd |-> wdFile, locations |-> LOCATIONS, key |-> API_KEY]

\* lines 239-252: the credential check, get_location_cache, the check for an
\* empty cache; the run starts gap seconds after the previous one ended (the
\* seconds of the geocoding loop are part of the gap)
main_start(gap, outcome) ==
    /\ pc = "idle"
    /\ runs < MaxRuns
    /\ runs' = runs + 1
    /\ pre' = Artifacts
    /\ procLog' = <<>>
    /\ weather_results' = <<>>
    /\ idx' = 1
    /\ UNCHANGED <<API_KEY, LOCATIONS, fcFile, wdFile>>
    /\ IF ~CredentialOK(API_KEY)
       THEN /\ exit' = "no_key"
            /\ clock' = clock + gap
            /\ builds' = 0
            /\ geoLog' = <<>>
            /\ geoOk' = <<>>
            /\ io' = NoIO
            /\ locations_data' = <<>>
            /\ UNCHANGED <<locFile, pc>>
       ELSE LET g == get_location_cache(locFile, LOCATIONS, outcome)
            IN  /\ locFile' = g.file
                /\ builds' = g.builds
                /\ geoLog' = g.log
                /\ geoOk' = g.ok
                /\ io' = [NoIO EXCEPT !.loc_loads = g.loads, !.loc_saves = g.saves]
                /\ clock' = clock + gap
                /\ IF g.raised
                   THEN locations_data' = <<>> /\ exit' = "critical" /\ pc' = "idle"
                   ELSE /\ locations_data' = g.cache.locations
                        /\ IF NoLocations(g.cache.locations)
                           THEN exit' = "no_locations" /\ pc' = "idle"
                           ELSE exit' = "running" /\ pc' = "loop"

\* lines 256-299: one iteration of the loop over locations_data; a KeyError
\* of line 257 or an AttributeError out of fetch_rain_probability ends the
\* run in the handler of lines 310-311
process_location(wresp, fresp, dt) ==
    /\ pc = "loop"
    /\ idx <= Len(locations_data)
    /\ LET place == locations_data[idx].place
           weather == fetch_weather(wresp)
           f == fetch_rain_probability(place, clock + dt, fcFile, fresp)
       IN  IF ~HasCoords(locations_data[idx])
           THEN /\ exit' = "critical"
                /\ pc' = "idle"
                /\ wdFile' = SnapshotAfterCrash(wdFile, weather_results, clock)
                /\ UNCHANGED <<clock, fcFile, io, weather_results, procLog, idx>>
           ELSE IF f.raised
           THEN /\ exit' = "critical"
                /\ pc' = "idle"
                /\ clock' = clock + dt
                /\ io' = [io EXCEPT !.fc_loads = @ + f.loads]
                /\ wdFile' = SnapshotAfterCrash(wdFile, weather_results, clock + dt)
                /\ UNCHANGED <<fcFile, weather_results, procLog, idx>>
           ELSE /\ clock' = clock + dt
                /\ fcFile' = f.file
                /\ io' = [io EXCEPT !.fc_loads = @ + f.loads,
                                    !.fc_saves = @ + (IF f.saved THEN 1 ELSE 0)]
                /\ weather_results' = AppendResult(weather_results,
                                                   LocationResult(place, weather, f.ret))
                /\ procLog' = Append(procLog,
                       [place |-> place, now |-> clock + dt, weather |-> weather,
                        rain |-> f.ret, called |-> f.called, saved |-> f.saved,
                        cached |-> f.cached,
                        empty |-> fresp.kind = "ok" /\ fresp.list = <<>>,
                        error |-> f.called /\ fresp.kind = "error"])
                /\ idx' = idx + 1
                /\ UNCHANGED <<wdFile, exit, pc>>
    /\ UNCHANGED <<API_KEY, LOCATIONS, locFile, locations_data, runs, pre, builds,
                   geoLog, geoOk>>

\* a stamp taken when the first location is fetched
GeneratedAtFirstFetch(log, now) == IF log = <<>> THEN now ELSE log[1].now

\* line 303: datetime.now(timezone.utc), evaluated when output_data is built,
\* after the loop
GeneratedAt(log, now) == now

\* lines 301-308: the snapshot is saved
main_finish ==
    /\ pc = "loop"
    /\ idx > Len(locations_data)
    /\ wdFile' = [kind |-> "dict", generated_at |-> GeneratedAt(procLog, clock),
                  locations |-> weather_results]
    /\ io' = [io EXCEPT !.wd_saves = @ + 1]
    /\ exit' = "saved"
    /\ pc' = "idle"
    /\ UNCHANGED <<API_KEY, LOCATIONS, clock, locFile, fcFile, locations_data, idx,
                   weather_results, runs, pre, builds, geoLog, geoOk, procLog>>

\* between two runs the configured list is edited
EditConfig(locations) ==
    /\ pc = "idle"
    /\ runs < MaxRuns
    /\ locations # LOCATIONS
    /\ LOCATIONS' = locations
    /\ UNCHANGED <<API_KEY, clock, locFile, fcFile, wdFile, pc, locations_data, idx,
                   weather_results, runs, exit, pre, builds, geoLog, geoOk, io, procLog>>

\* the credential of the next run's environment
SetCredential ==
    /\ pc = "idle"
    /\ runs < MaxRuns
    /\ API_KEY' = ~API_KEY
    /\ UNCHANGED <<LOCATIONS, clock, locFile, fcFile, wdFile, pc, locations_data, idx,
                   weather_results, runs, exit, pre, builds, geoLog, geoOk, io, procLog>>

\* A forecast cache left by an earlier run that fetched a dry forecast for
\* "A" at time t and a wet one for "B" two seconds later.
EarlierForecasts(t) ==
    LET a == fetch_rain_probability(NameA, t, AbsentFile,
                 [kind |-> "ok", list |-> <<ItemNoPop, Item(0)>>])
        b == fetch_rain_probability(NameB, t + 2, a.file,
                 [kind |-> "ok", list |-> <<Item(3999), Item(7000)>>])
    IN  b.file

\* The snapshot that earlier run saved (its weather fetches failed).
EarlierSnapshot(t) ==
    LET a == fetch_rain_probability(NameA, t, AbsentFile,
                 [kind |-> "ok", list |-> <<ItemNoPop, Item(0)>>])
        b == fetch_rain_probability(NameB, t + 2, a.file,
                 [kind |-> "ok", list |-> <<Item(3999), Item(7000)>>])
    IN  [kind |-> "dict", generated_at |-> GeneratedAt(<<>>, t + 2),
         locations |-> <<LocationResult(NameA, None, a.ret),
                         LocationResult(NameB, None, b.ret)>>]

\* A location cache edited by hand: valid for <<"A", "B">>, the entry of "B"
\* without coordinates.
CacheWithoutCoords ==
    LocCache(hash_locations(<<NameA, NameB>>),
             <<[place |-> NameA, lat |-> Coords(NameA).lat, lon |-> Coords(NameA).lon],
               [place |-> NameB]>>)

\* Forecast caches that are JSON but not a mapping of objects: an array, and
\* a mapping in which the entry of "B" is a number.
MalformedForecasts == {JsonArray(<<>>), FcCache(NameB :> ScalarEntry)}

\* A forecast cache in an older layout, whose summaries lack a field.
LegacyEntries ==
    (NameA :> [timestamp |-> 100000, data |-> [max_rain_prob |-> 80]])
    @@ (NameB :> [timestamp |-> 100000 - 9000, data |-> [risk_level |-> "HIGH"]])

\* The forecast cache and the snapshot the first run of the behaviour finds:
\* nothing, files that are not what the program writes, or what an earlier
\* run left about two hours ago.
FoundForecasts ==
    {[fc |-> f, wd |-> AbsentFile] :
        f \in {AbsentFile, CorruptFile, FcCache(LegacyEntries)} \cup MalformedForecasts}
    \cup {[fc |-> EarlierForecasts(100000 - age), wd |-> EarlierSnapshot(100000 - age)] :
             age \in {7198, 7199, 7200}}

\* The artifacts the first run of the behaviour finds: nothing, unparsable
\* or malformed files, or what earlier runs of the program left (a location
\* cache built for <<"A", "B">> in which any of the geocodings may have
\* failed, a forecast cache written about two hours ago).
InitMain ==
    /\ API_KEY \in BOOLEAN
    /\ LOCATIONS = <<NameA, NameB>>
    /\ clock = 100000
    /\ locFile \in {AbsentFile, CorruptFile, JsonArray(<<0>>), CacheWithoutCoords}
                   \cup {build_location_cache(LOCATIONS, o).cache :
                            o \in [1..Len(LOCATIONS) -> {"found", "timeout"}]}
    /\ \E found \in FoundForecasts : fcFile = found.fc /\ wdFile = found.wd
    /\ pc = "idle"
    /\ locations_data = <<>>
    /\ idx = 1
    /\ weather_results = <<>>
    /\ runs = 0
    /\ exit = "none"
    /\ pre = Artifacts
    /\ builds = 0
    /\ geoLog = <<>>
    /\ geoOk = <<>>
    /\ io = NoIO
    /\ procLog = <<>>

InitHistIdle == histFile = AbsentFile /\ histLog = <<>> /\ histPrev = AbsentFile
InitRiskIdle == series = <<>> /\ result = None
InitGeoIdle == attempts = <<>> /\ built = None

Init == InitMain /\ InitHistIdle /\ InitRiskIdle /\ InitGeoIdle

Next ==
    \/ \E gap \in (IF runs = 0 THEN {0} ELSE Gaps), outcome \in [1..Len(LOCATIONS) -> RunOutcomes] :
          main_start(gap, outcome) /\ UNCHANGED <<histVars, riskVars, geoVars>>
    \/ \E wresp \in WeatherResponses, fresp \in ForecastResponses, dt \in Elapsed :
          process_location(wresp, fresp, dt) /\ UNCHANGED <<histVars, riskVars, geoVars>>
    \/ main_finish /\ UNCHANGED <<histVars, riskVars, geoVars>>
    \/ \E locations \in Configs : EditConfig(locations) /\ UNCHANGED <<histVars, riskVars, geoVars>>
    \/ SetCredential /\ UNCHANGED <<histVars, riskVars, geoVars>>

Spec == Init /\ [][Next]_vars

-----------------------------------------------------------------------------
(* The forecast computation on its own: SpecRisk *)

\* the pops of the series: the band boundaries and their neighbours
Pops == {0, 3999, 4000, 6999, 7000}
Items == {Item(p) : p \in Pops} \cup {ItemNoPop}
AllSeries == UNION {[1..n -> Items] : n \in 0..MaxSeries}

Pending == [pending |-> TRUE]

\* fetch_rain_probability for "A" on an empty cache, the provider returning series
Compute ==
    /\ result = Pending
    /\ result' = fetch_rain_probability(NameA, clock, fcFile, [kind |-> "ok", list |-> series])
    /\ UNCHANGED <<series, mainVars, histVars, geoVars>>

InitRisk ==
    /\ InitHistIdle
    /\ InitGeoIdle
    /\ API_KEY = TRUE /\ LOCATIONS = <<NameA>> /\ clock = 100000
    /\ locFile = AbsentFile /\ fcFile = AbsentFile /\ wdFile = AbsentFile
    /\ pc = "idle" /\ locations_data = <<>> /\ idx = 1 /\ weather_results = <<>>
    /\ runs = 0 /\ exit = "none" /\ pre = Artifacts /\ builds = 0
    /\ geoLog = <<>> /\ geoOk = <<>> /\ io = NoIO /\ procLog = <<>>
    /\ series \in AllSeries
    /\ result = Pending

NextRisk == Compute

SpecRisk == InitRisk /\ [][NextRisk]_vars

-----------------------------------------------------------------------------
(* Historical accumulator: test_historical.py, SpecHist *)

\* a loader that always starts from the empty list
load_historical_data_keep_nothing(file) == <<>>

\* load_historical_data: the list in the file, [] when the file is absent,
\* does not parse, or holds anything but a list

load_historical_data(file) ==
    IF file.kind = "list" THEN file.items ELSE <<>>

HistList(items) == [kind |-> "list", items |-> items]

\* lines 41-64: the locations of the snapshot
MockLocations ==
    <<[place |-> "Lagos, Nigeria", rain_probability |-> 45, risk |-> "MODERATE"],
      [place |-> "Abuja, Nigeria", rain_probability |-> 10, risk |-> "LOW"]>>

\* lines 76-79: a snapshot generated at time t
Snapshot(t) == [generated_at |-> t, locations |-> MockLocations]

SnapshotTimes == {100000, 107200, 114400}

\* lines 72-86: load, append, save
accumulate(t) ==
    /\ Len(histLog) < MaxHist
    /\ histPrev' = histFile
    /\ histFile' = HistList(Append(load_historical_data(histFile), Snapshot(t)))
    /\ histLog' = Append(histLog, Snapshot(t))
    /\ UNCHANGED <<mainVars, riskVars, geoVars>>

InitHist ==
    /\ InitRiskIdle
    /\ InitGeoIdle
    /\ API_KEY = FALSE /\ LOCATIONS = <<NameA>> /\ clock = 100000
    /\ locFile = AbsentFile /\ fcFile = AbsentFile /\ wdFile = AbsentFile
    /\ pc = "idle" /\ locations_data = <<>> /\ idx = 1 /\ weather_results = <<>>
    /\ runs = 0 /\ exit = "none" /\ pre = Artifacts /\ builds = 0
    /\ geoLog = <<>> /\ geoOk = <<>> /\ io = NoIO /\ procLog = <<>>
    /\ histFile \in {AbsentFile, CorruptFile, [kind |-> "dict"], HistList(<<>>)}
    /\ histPrev = histFile
    /\ histLog = <<>>

NextHist == \E t \in SnapshotTimes : accumulate(t)

SpecHist == InitHist /\ [][NextHist]_vars

-----------------------------------------------------------------------------
(* Properties of the location cache manager *)

\* a run of main has started with the credential set
RunWithKey == runs > 0 /\ pre.key

\* the configured names the cache found by the run lacks
MissingNames ==
    IF pre.loc.kind = "dict"
    THEN {pre.locations[i] : i \in 1..Len(pre.locations)} \ PlacesOf(pre.loc.locations)
    ELSE {}

\* the cache found by the run has the version of the configured list
VersionMatches ==
    pre.loc.kind = "dict" /\ pre.loc.version = hash_locations(pre.locations)

\* C1: a run that finds a location cache whose version is the fingerprint of
\* the configured list but which lacks at least one configured name invokes
\* build_location_cache exactly once, and that rebuild geocodes every
\* configured name exactly once (in configured order), however many names
\* are missing: never only the missing ones.
C1_FullRebuildOnce ==
    (RunWithKey /\ VersionMatches /\ MissingNames # {})
        => /\ builds = 1
           /\ geoLog = pre.locations
           /\ locFile.kind = "dict"
           /\ locFile.version = hash_locations(pre.locations)

\* C1 happens: one of two configured names was missing, both were geocoded
C1_Witness ==
    /\ RunWithKey /\ VersionMatches
    /\ Len(pre.locations) = 2
    /\ Cardinality(MissingNames) = 1
    /\ builds = 1
    /\ Len(geoLog) = 2

-----------------------------------------------------------------------------
(* Properties of the forecast cache manager *)

HasBothFields(data) == "max_rain_prob" \in DOMAIN data /\ "risk_level" \in DOMAIN data

\* C2: a call that finds a cached entry with both summary fields returns the
\* cached summary without calling the provider and without writing the cache
\* if and only if now - timestamp < 7200; at every age >= 7200 the provider is
\* called.  An entry lacking a summary field makes the provider be called
\* whatever its age.
C2_FreshIffUnder7200 ==
    \A i \in 1..Len(procLog) :
        LET e == procLog[i]
        IN  e.cached # None =>
              LET c == e.cached[1]
                  age == e.now - c.timestamp
              IN  IF HasBothFields(c.data)
                  THEN /\ (age < 7200) <=> (~e.called /\ ~e.saved /\ e.rain = c.data)
                       /\ (age >= 7200) => e.called
                  ELSE e.called

\* C2 happens: in one run an entry aged 7199 s was served from the cache and
\* an entry aged exactly 7200 s was fetched again
C2_Witness ==
    /\ \E i \in 1..Len(procLog) :
          /\ procLog[i].cached # None
          /\ HasBothFields(procLog[i].cached[1].data)
          /\ procLog[i].now - procLog[i].cached[1].timestamp = 7199
          /\ ~procLog[i].called
    /\ \E i \in 1..Len(procLog) :
          /\ procLog[i].cached # None
          /\ HasBothFields(procLog[i].cached[1].data)
          /\ procLog[i].now - procLog[i].cached[1].timestamp = 7200
          /\ procLog[i].called

\* the forecast fetch of the i-th processed location failed / succeeded
FetchFailed(i) == procLog[i].called /\ procLog[i].rain = None
FetchSucceeded(i) == procLog[i].called /\ procLog[i].rain # None

\* the forecast cache entries the run found
PreEntries == EntriesOf(load_json(pre.fc))
CurEntries == EntriesOf(load_json(fcFile))

\* C3: in a run in which the forecast fetch fails for a location X and
\* succeeds for a location Y (in either order), X's LocationResult has risk
\* UNKNOWN and no rain_probability, Y's carries the fetched max_rain_prob and
\* risk_level, the persisted forecast cache holds Y's new entry, and every
\* entry the run found for a place whose fetch did not succeed (X's stale
\* entry included) is unchanged.
C3_PartialFailureIsolation ==
    ((\E x \in 1..Len(procLog) : FetchFailed(x)) /\ (\E y \in 1..Len(procLog) : FetchSucceeded(y)))
        => /\ \A x \in 1..Len(procLog) : FetchFailed(x) =>
                 /\ weather_results[x].risk = "UNKNOWN"
                 /\ weather_results[x].rain_probability = None
           /\ \A y \in 1..Len(procLog) : FetchSucceeded(y) =>
                 /\ weather_results[y].rain_probability = Some(procLog[y].rain.max_rain_prob)
                 /\ weather_results[y].risk = procLog[y].rain.risk_level
                 /\ procLog[y].place \in DOMAIN CurEntries
                 /\ CurEntries[procLog[y].place] =
                        [timestamp |-> procLog[y].now, data |-> procLog[y].rain]
           /\ \A p \in DOMAIN PreEntries :
                 (\A y \in 1..Len(procLog) : FetchSucceeded(y) => procLog[y].place # p)
                     => p \in DOMAIN CurEntries /\ CurEntries[p] = PreEntries[p]

\* C3 happens: the run ended, Y was fetched first, X failed after it, and X
\* had a stale entry before the run
C3_Witness ==
    /\ exit = "saved"
    /\ Len(procLog) = 2
    /\ FetchSucceeded(1)
    /\ FetchFailed(2)
    /\ procLog[2].place \in DOMAIN PreEntries
    /\ procLog[1].place \in DOMAIN PreEntries

\* the largest pop among the first four items of the series (a missing pop
\* is 0), written out from the claim
MaxOfFirstFour ==
    LET n == IF Len(series) < 4 THEN Len(series) ELSE 4
        pops == {IF "pop" \in DOMAIN series[i] THEN series[i].pop ELSE 0 : i \in 1..n}
    IN  CHOOSE m \in pops : \A q \in pops : q <= m

\* C4: for a non-empty series the risk level depends only on m, the largest
\* pop among the first four entries (all of them when fewer; a missing pop is
\* 0): HIGH iff m >= 0.70, MODERATE iff 0.40 <= m < 0.70, LOW iff m < 0.40;
\* entries after the fourth never matter.
C4_RiskBands ==
    (result # Pending /\ series # <<>>)
        => /\ result.ret # None
           /\ (result.ret.risk_level = "HIGH") <=> (MaxOfFirstFour >= 7000)
           /\ (result.ret.risk_level = "MODERATE")
                  <=> (4000 <= MaxOfFirstFour /\ MaxOfFirstFour < 7000)
           /\ (result.ret.risk_level = "LOW") <=> (MaxOfFirstFour < 4000)

\* C4 happens: the first four pops peak at 0.6999, the fifth is 0.70, and the
\* risk is MODERATE
C4_Witness ==
    /\ result # Pending
    /\ Len(series) = 5
    /\ MaxOfFirstFour = 6999
    /\ series[5] = Item(7000)
    /\ result.ret.risk_level = "MODERATE"

\* the summary persisted for "A" by the computation
PersistedSummary == result.file.entries[NameA].data

\* C5 as stated: every summary produced and persisted has the risk level its
\* own max_rain_prob gives with thresholds 70 and 40: HIGH iff >= 70,
\* MODERATE iff 40 <= . < 70, LOW iff < 40.
C5_RiskFromPercent ==
    (result # Pending /\ result.ret # None)
        => LET pct == PersistedSummary.max_rain_prob
               risk == PersistedSummary.risk_level
           IN  /\ (risk = "HIGH") <=> (pct >= 70)
               /\ (risk = "MODERATE") <=> (40 <= pct /\ pct < 70)
               /\ (risk = "LOW") <=> (pct < 40)

\* pct is round(100 * m) for m in units of 1/10000: the nearest integer, a
\* half going to the even one
IsRoundedPercent(pct, m) ==
    LET d == 100 * pct - m
    IN  /\ -50 <= d /\ d <= 50
        /\ (d = 50 \/ d = -50) => pct % 2 = 0

\* C5 amended: every summary produced is persisted as returned, with
\* max_rain_prob = round(100 * max pop); its risk level is decided by the
\* unrounded max pop, so that it agrees with the bands of max_rain_prob except
\* at the two values rounding reaches from below: HIGH implies
\* max_rain_prob >= 70 and max_rain_prob > 70 implies HIGH; LOW implies
\* max_rain_prob <= 40 and max_rain_prob > 40 implies not LOW.
C5_RiskFromPercentUpToRounding ==
    (result # Pending /\ result.ret # None)
        => LET pct == PersistedSummary.max_rain_prob
               risk == PersistedSummary.risk_level
           IN  /\ PersistedSummary = result.ret
               /\ IsRoundedPercent(pct, MaxOfFirstFour)
               /\ risk \in {"LOW", "MODERATE", "HIGH"}
               /\ (risk = "HIGH") => (pct >= 70)
               /\ (pct > 70) => (risk = "HIGH")
               /\ (risk = "LOW") => (pct <= 40)
               /\ (pct > 40) => (risk # "LOW")

\* C5 happens: a max pop of 0.6999 is persisted as 70 percent, MODERATE
C5_Witness ==
    /\ result # Pending
    /\ result.ret # None
    /\ MaxOfFirstFour = 6999
    /\ PersistedSummary = [max_rain_prob |-> 70, risk_level |-> "MODERATE"]

\* C6 as stated: an empty series, for a place without a fresh entry, gives
\* the summary LOW with rain probability 0.
C6_EmptySeriesIsLow ==
    \A i \in 1..Len(procLog) :
        (procLog[i].called /\ procLog[i].empty)
            => procLog[i].rain = [max_rain_prob |-> 0, risk_level |-> "LOW"]

\* C6 amended: an empty series, for a place without a fresh entry, gives no
\* summary: the fetch counts as failed, nothing is written to the forecast
\* cache, and the LocationResult has risk UNKNOWN and no rain_probability.
C6_EmptySeriesIsFailure ==
    \A i \in 1..Len(procLog) :
        (procLog[i].called /\ procLog[i].empty)
            => /\ procLog[i].rain = None
               /\ ~procLog[i].saved
               /\ weather_results[i].risk = "UNKNOWN"
               /\ weather_results[i].rain_probability = None

\* C6 happens: the provider returned an empty series for a place whose
\* cached entry was stale
C6_Witness ==
    \E i \in 1..Len(procLog) :
        /\ procLog[i].called /\ procLog[i].empty
        /\ procLog[i].cached # None
        /\ weather_results[i].risk = "UNKNOWN"

-----------------------------------------------------------------------------
(* Properties of the snapshot builder *)

\* C7: in every LocationResult of the list a run assembles, and of the
\* snapshot it writes, risk is UNKNOWN iff rain_probability is absent, which
\* is exactly when fetch_rain_probability returned no summary; a summary is
\* reported with its own max_rain_prob and risk_level (0 / LOW stays 0 / LOW).
C7_UnknownIffNoSummary ==
    /\ Len(weather_results) = Len(procLog)
    /\ \A i \in 1..Len(weather_results) :
          LET r == weather_results[i]
              rain == procLog[i].rain
          IN  /\ (r.risk = "UNKNOWN") <=> (r.rain_probability = None)
              /\ (r.rain_probability = None) <=> (rain = None)
              /\ rain # None =>
                    /\ r.rain_probability = Some(rain.max_rain_prob)
                    /\ r.risk = rain.risk_level
                    /\ r.risk \in {"LOW", "MODERATE", "HIGH"}
    /\ exit = "saved" => wdFile.kind = "dict" /\ wdFile.locations = weather_results

\* C7 happens: a written snapshot holds a computed 0 / LOW beside an UNKNOWN
C7_Witness ==
    /\ exit = "saved"
    /\ \E i \in 1..Len(wdFile.locations) :
          /\ wdFile.locations[i].risk = "LOW"
          /\ wdFile.locations[i].rain_probability = Some(0)
    /\ \E i \in 1..Len(wdFile.locations) :
          /\ wdFile.locations[i].risk = "UNKNOWN"
          /\ wdFile.locations[i].rain_probability = None

\* C9: a run of main without the credential ends at once: no geocoding, no
\* weather fetch, no forecast fetch, and the location cache, the forecast
\* cache and the snapshot are what they were.
C9_NoKeyNoEffect ==
    (runs > 0 /\ ~pre.key)
        => /\ exit = "no_key"
           /\ pc = "idle"
           /\ builds = 0
           /\ geoLog = <<>>
           /\ procLog = <<>>
           /\ weather_results = <<>>
           /\ locFile = pre.loc
           /\ fcFile = pre.fc
           /\ wdFile = pre.wd

\* C9 happens: a run without the credential found a location cache that a
\* run with it would have rebuilt
C9_Witness ==
    /\ runs > 0
    /\ ~pre.key
    /\ exit = "no_key"
    /\ NeedsRebuild(load_json(pre.loc), pre.locations)

\* the lists of distinct names
DistinctLists ==
    {l \in UNION {[1..n -> Names] : n \in 0..Cardinality(Names)} :
        \A i, j \in 1..Len(l) : i # j => l[i] # l[j]}

IsPermutation(l, m) ==
    /\ Len(l) = Len(m)
    /\ {l[i] : i \in 1..Len(l)} = {m[i] : i \in 1..Len(m)}

\* the cache build_location_cache saves for l when every geocoding succeeds
CompleteCache(l) == build_location_cache(l, [i \in 1..Len(l) |-> "found"]).cache

\* the names of the cache the run found, in the order of the file
PreCacheNames ==
    IF pre.loc.kind = "dict"
    THEN [i \in 1..Len(pre.loc.locations) |-> pre.loc.locations[i].place]
    ELSE <<>>

\* hash_locations gives a list of distinct names and each of its permutations
\* the same fingerprint
PermutationsHashAlike ==
    \A l \in DistinctLists : \A m \in DistinctLists :
        IsPermutation(l, m) => hash_locations(l) = hash_locations(m)

\* C10: the fingerprint of a list of distinct names is that of each of its
\* permutations; and a run that finds the complete cache built for a
\* permutation of the configured list serves it as it is, with no geocoding
\* and no write.
C10_FingerprintOrderIndependent ==
    /\ PermutationsHashAlike
    /\ (RunWithKey /\ IsPermutation(PreCacheNames, pre.locations)
                   /\ pre.loc = CompleteCache(PreCacheNames))
          => /\ builds = 0
             /\ geoLog = <<>>
             /\ locFile = pre.loc
             /\ locations_data = pre.loc.locations

\* C10 happens: the cache was built for <<"A", "B">>, the run is configured
\* with <<"B", "A">>, and nothing is geocoded
C10_Witness ==
    /\ RunWithKey
    /\ pre.locations = <<NameB, NameA>>
    /\ pre.loc = CompleteCache(<<NameA, NameB>>)
    /\ builds = 0
    /\ locations_data = pre.loc.locations

-----------------------------------------------------------------------------
(* Properties of the historical accumulator *)

\* the record the accumulator found: the list in the file, or the empty one
PreviousRecord == IF histPrev.kind = "list" THEN histPrev.items ELSE <<>>

\* C8: after an accumulator run with snapshot s the persisted record is
\* R ++ [s], R being the previous record if it was a list and the empty list
\* if the file was absent, unparsable or not a list; so N runs from an empty
\* record give the N snapshots in order, unchanged.
C8_AppendOnly ==
    histLog # <<>>
        => /\ histFile.kind = "list"
           /\ histFile.items = Append(PreviousRecord, histLog[Len(histLog)])
           /\ histFile.items = histLog

\* C8 happens: three snapshots, two of them equal, on a file that held a
\* JSON object
C8_Witness ==
    /\ Len(histLog) = 3
    /\ histLog[1] = histLog[2]
    /\ histLog[3] # histLog[1]
    /\ histPrev.kind = "list"
    /\ Len(histFile.items) = 3

\* C8 happens on a malformed file: one run on a JSON object gives length 1
C8_WitnessMalformed ==
    /\ Len(histLog) = 1
    /\ histPrev.kind = "dict"
    /\ Len(histFile.items) = 1

-----------------------------------------------------------------------------
(* The rebuild on its own: SpecGeo *)

\* build_location_cache for the configured list, geocode behaving as attempts
Build ==
    /\ built = Pending
    /\ built' = build_location_cache(LOCATIONS, attempts)
    /\ UNCHANGED <<attempts, mainVars, histVars, riskVars>>

InitGeo ==
    /\ InitHistIdle
    /\ InitRiskIdle
    /\ API_KEY = TRUE /\ clock = 100000
    /\ locFile = AbsentFile /\ fcFile = AbsentFile /\ wdFile = AbsentFile
    /\ pc = "idle" /\ locations_data = <<>> /\ idx = 1 /\ weather_results = <<>>
    /\ runs = 0 /\ exit = "none" /\ builds = 0
    /\ geoLog = <<>> /\ geoOk = <<>> /\ io = NoIO /\ procLog = <<>>
    /\ LOCATIONS \in DistinctLists
    /\ pre = Artifacts
    /\ attempts \in [1..Len(LOCATIONS) -> GeoOutcomes]
    /\ built = Pending

NextGeo == Build

SpecGeo == InitGeo /\ [][NextGeo]_vars

-----------------------------------------------------------------------------
(* Claims on failures, rebuilds and the shape of a run *)

\* the last entry of a non-empty log
Last(log) == log[Len(log)]

\* C11: when fetch_rain_probability does not serve a fresh entry and the
\* fetch fails (an error of any kind, or an empty series), it returns absent
\* and forecast_cache.json is exactly what it was: no entry is added, removed
\* or changed, and a stale entry for the place is neither served nor deleted.
C11_FailedFetchLeavesCache ==
    [][ (/\ Len(procLog') = Len(procLog) + 1
         /\ Last(procLog').called
         /\ Last(procLog').error \/ Last(procLog').empty)
        => /\ Last(procLog').rain = None
           /\ ~Last(procLog').saved
           /\ fcFile' = fcFile ]_vars

\* C11 happens: a place with a stale entry, a fetch that failed, the stale
\* entry still in the file
C11_Witness ==
    \E i \in 1..Len(procLog) :
        /\ i = Len(procLog)
        /\ procLog[i].called /\ procLog[i].error
        /\ procLog[i].cached # None
        /\ "max_rain_prob" \in DOMAIN procLog[i].cached[1].data
        /\ procLog[i].place \in DOMAIN CurEntries
        /\ CurEntries[procLog[i].place] = procLog[i].cached[1]
        /\ procLog[i].rain = None

\* the names passed to geocode, in the order of the calls
RECURSIVE GeocodedNames(_)
GeocodedNames(events) ==
    IF events = <<>> THEN <<>>
    ELSE IF Head(events).op = "geocode"
         THEN <<Head(events).place>> \o GeocodedNames(Tail(events))
         ELSE GeocodedNames(Tail(events))

\* the configured names whose geocoding returned a location, in order
RECURSIVE FoundFrom(_, _, _)
FoundFrom(locations, outcome, i) ==
    IF i > Len(locations) THEN <<>>
    ELSE IF outcome[i] = "found"
         THEN <<[place |-> locations[i], lat |-> Coords(locations[i]).lat,
                 lon |-> Coords(locations[i]).lon]>> \o FoundFrom(locations, outcome, i + 1)
         ELSE FoundFrom(locations, outcome, i + 1)

\* C12: build_location_cache attempts every configured name exactly once in
\* configured order, whichever attempts return none or raise, and then saves
\* exactly once a cache whose version is the fingerprint of the configured
\* list and whose entries are exactly the names geocoded successfully; it
\* saves even when that set is incomplete or empty.
C12_RebuildAttemptsAllSavesOnce ==
    built # Pending /\ built # None
        => /\ GeocodedNames(built.events) = LOCATIONS
           /\ built.log = LOCATIONS
           /\ Len(built.saves) = 1
           /\ built.saves[1] = built.cache
           /\ built.cache.kind = "dict"
           /\ built.cache.version = hash_locations(LOCATIONS)
           /\ built.cache.locations = FoundFrom(LOCATIONS, attempts, 1)

\* C12 happens: three names, the first times out, the second is found, the
\* third raises another error; the cache saved has the second alone
C12_Witness ==
    /\ built # Pending /\ built # None
    /\ Len(LOCATIONS) = 3
    /\ attempts[1] = "timeout" /\ attempts[2] = "found" /\ attempts[3] = "error"
    /\ Len(built.saves) = 1
    /\ PlacesOf(built.saves[1].locations) = {LOCATIONS[2]}

\* C15: during a rebuild there is a time.sleep(1) between every two
\* successive calls of geocode, whatever the earlier call did.
C15_DelayBetweenGeocodings ==
    built # Pending /\ built # None
        => \A k \in 1..(Len(built.events) - 1) :
              ~(built.events[k].op = "geocode" /\ built.events[k + 1].op = "geocode")

\* the file holds a cache that get_location_cache serves for the list
ValidFor(file, locations) ==
    /\ file.kind = "dict"
    /\ file.version = hash_locations(locations)
    /\ \A i \in 1..Len(locations) : locations[i] \in PlacesOf(file.locations)

\* the file is loaded as a cache without an entry for some name of the list
LacksName(file, locations) ==
    \/ file.kind \in {"absent", "corrupt"} /\ locations # <<>>
    \/ /\ file.kind = "dict"
       /\ \E i \in 1..Len(locations) : locations[i] \notin PlacesOf(file.locations)

\* what a run does with the location cache it finds
C13_RunOnCache ==
    RunWithKey
        => /\ ValidFor(pre.loc, pre.locations)
                => /\ builds = 0
                   /\ geoLog = <<>>
                   /\ locFile = pre.loc
                   /\ locations_data = pre.loc.locations
           /\ LacksName(pre.loc, pre.locations)
                => /\ builds = 1
                   /\ geoLog = pre.locations
           /\ (builds = 1 /\ \A i \in 1..Len(geoOk) : geoOk[i])
                => ValidFor(locFile, pre.locations)

C14_StampBeforeFetches ==
    exit = "saved"
        => \A i \in 1..Len(procLog) :
              procLog[i].saved => wdFile.generated_at <= procLog[i].now

\* C14: generated_at is taken once, when the snapshot is built after the
\* last location was processed: it is not earlier than the time of any fetch
\* of the run nor than the timestamp of any forecast cache entry written in
\* the run, and it is one value of the snapshot, not a field of its
\* LocationResults.
C14_StampAfterFetches ==
    exit = "saved"
        => /\ \A i \in 1..Len(procLog) :
                 /\ wdFile.generated_at >= procLog[i].now
                 /\ procLog[i].saved
                      => CurEntries[procLog[i].place].timestamp <= wdFile.generated_at
           /\ \A i \in 1..Len(wdFile.locations) :
                 "generated_at" \notin DOMAIN wdFile.locations[i]

\* C14 happens: two forecast entries were written and the snapshot is
\* stamped later than the first of them
C14_Witness ==
    /\ exit = "saved"
    /\ Len(procLog) = 2
    /\ procLog[1].saved /\ procLog[2].saved
    /\ CurEntries[procLog[1].place].timestamp < wdFile.generated_at

\* the number of entries of a log whose forecast was fetched successfully
RECURSIVE CountFetched(_)
CountFetched(log) ==
    IF log = <<>> THEN 0
    ELSE (IF Head(log).called /\ Head(log).rain # None THEN 1 ELSE 0)
         + CountFetched(Tail(log))

\* C16 as stated: within a run each artifact is loaded at most once and
\* saved at most once; the forecast cache is loaded once and saved once,
\* however many locations are processed.
C16_EachArtifactOnce ==
    RunWithKey
        => /\ io.loc_loads <= 1 /\ io.loc_saves <= 1
           /\ io.fc_loads <= 1 /\ io.fc_saves <= 1
           /\ io.wd_saves <= 1

\* C16: within a run the location cache is loaded once and saved at most
\* once (by a rebuild), the snapshot is saved at most once; the forecast
\* cache is loaded once per location processed (the one at which an error
\* escaped included) and saved once per location whose forecast was fetched
\* successfully.
C16_ForecastCachePerLocation ==
    RunWithKey
        => /\ io.loc_loads = 1
           /\ io.loc_saves = builds /\ builds <= 1
           /\ io.wd_saves = (IF exit = "saved" THEN 1 ELSE 0)
           /\ IF exit = "critical"
              THEN io.fc_loads \in {Len(procLog), Len(procLog) + 1}
              ELSE io.fc_loads = Len(procLog)
           /\ io.fc_saves = CountFetched(procLog)
           /\ io.fc_saves <= io.fc_loads
           /\ io.fc_loads <= Len(locations_data)

\* C16 happens: two locations, the forecast cache loaded twice and saved twice
C16_Witness ==
    /\ RunWithKey
    /\ exit = "saved"
    /\ Len(locations_data) = 2
    /\ io.fc_loads = 2
    /\ io.fc_saves = 2
    /\ io.wd_saves = 1

\* a cache file that is absent, does not parse or is not a JSON object
NotAnObject(file) == file.kind \in {"absent", "corrupt", "list"}

\* a forecast cache with an entry that is not a JSON object
HasScalarEntry(file) ==
    file.kind = "dict" /\ \E q \in DOMAIN file.entries : ~IsMapping(file.entries[q])

\* every entry of the location cache has its coordinates
EntriesHaveCoords(file) ==
    file.kind = "dict" => \A i \in 1..Len(file.locations) : HasCoords(file.locations[i])

\* some forecast was fetched and saved in this run
SomeSaved == \E i \in 1..Len(procLog) : procLog[i].saved

\* C17: a malformed cache file never aborts a run: a location cache or a
\* forecast cache that is absent, does not parse or is not of the expected
\* shape (an array, an entry that is not a mapping) is treated as empty (the
\* location cache is rebuilt, the place is refetched), the run goes on to
\* write the snapshot, and the malformed file is replaced by a well-formed
\* one.
C17_MalformedNeverAborts ==
    (/\ RunWithKey /\ pc = "idle"
     /\ EntriesHaveCoords(pre.loc)
     /\ NotAnObject(pre.loc) \/ NotAnObject(pre.fc) \/ HasScalarEntry(pre.fc))
        => /\ exit # "critical"
           /\ NotAnObject(pre.loc) => builds = 1 /\ locFile.kind = "dict"
           /\ locations_data # <<>> => exit = "saved"
           /\ SomeSaved => fcFile.kind = "dict" /\ ~HasScalarEntry(fcFile)

\* the part of C17 that the code has: absent and unparsable files
C17_AbsentOrCorruptNeverAborts ==
    (/\ RunWithKey /\ pc = "idle"
     /\ EntriesHaveCoords(pre.loc)
     /\ pre.loc.kind \in {"absent", "corrupt", "dict"}
     /\ pre.fc.kind \in {"absent", "corrupt"})
        => /\ exit # "critical"
           /\ pre.loc.kind # "dict" => builds = 1 /\ locFile.kind = "dict"
           /\ locations_data # <<>> => exit = "saved"
           /\ SomeSaved => fcFile.kind = "dict"

\* C18: when an unexpected error escapes while main processes the locations
\* (a cache entry without lat / lon, say), the rest of the run is skipped,
\* main ends normally, weather_data.json is not written and keeps its
\* previous content, and the location cache and the forecast entries saved
\* earlier in the run stay as they were saved.
C18_EscapedErrorKeepsArtifacts ==
    (RunWithKey /\ exit = "critical" /\ locations_data # <<>>)
        => /\ pc = "idle"
           /\ Len(weather_results) < Len(locations_data)
           /\ wdFile = pre.wd
           /\ io.wd_saves = 0
           /\ IF builds = 1
              THEN locFile = LocCache(hash_locations(pre.locations), locations_data)
              ELSE locFile = pre.loc
           /\ \A i \in 1..Len(procLog) :
                 procLog[i].saved
                    => /\ procLog[i].place \in DOMAIN CurEntries
                       /\ CurEntries[procLog[i].place]
                            = [timestamp |-> procLog[i].now, data |-> procLog[i].rain]

\* C18 happens: the entry of the second location has no coordinates, the
\* forecast of the first was fetched and saved, the previous snapshot is
\* still in the file
C18_Witness ==
    /\ RunWithKey /\ exit = "critical"
    /\ Len(locations_data) = 2
    /\ ~HasCoords(locations_data[2])
    /\ Len(procLog) = 1 /\ procLog[1].saved
    /\ pre.wd.kind = "dict"
    /\ wdFile = pre.wd
    /\ CurEntries[procLog[1].place].timestamp = procLog[1].now

\* the places of a list of results, in order
ResultPlaces(results) == [i \in 1..Len(results) |-> results[i].place]

\* C19: a snapshot written by a run has exactly one LocationResult per entry
\* of the location cache that get_location_cache returned, in the order of
\* that cache, none twice and none left out because a fetch failed; a
\* configured name whose geocoding failed has no LocationResult.
C19_OneResultPerCacheEntry ==
    (RunWithKey /\ exit = "saved")
        => /\ locations_data = locFile.locations
           /\ ResultPlaces(wdFile.locations) = ResultPlaces(locations_data)
           /\ \A i, j \in 1..Len(wdFile.locations) :
                 i # j => wdFile.locations[i].place # wdFile.locations[j].place
           /\ \A k \in 1..Len(geoLog) :
                 ~geoOk[k] => geoLog[k] \notin PlacesOf(wdFile.locations)

\* C19 happens: of two configured names one could not be geocoded; the
\* snapshot has the other alone, although both of its fetches failed
C19_Witness ==
    /\ RunWithKey /\ exit = "saved"
    /\ builds = 1 /\ Len(geoLog) = 2
    /\ ~geoOk[1] /\ geoOk[2]
    /\ Len(wdFile.locations) = 1
    /\ wdFile.locations[1].place = geoLog[2]
    /\ wdFile.locations[1].temp = None
    /\ wdFile.locations[1].risk = "UNKNOWN"

\* C20: a run whose location cache has no entries (every geocoding of the
\* rebuild failed) fetches no weather and no forecast and writes neither the
\* snapshot nor the forecast cache; the previous snapshot stays, and so does
\* the location cache without entries that the rebuild saved.
C20_NoLocationsNoSnapshot ==
    (RunWithKey /\ exit # "critical" /\ locations_data = <<>>)
        => /\ exit = "no_locations"
           /\ pc = "idle"
           /\ builds = 1
           /\ \A k \in 1..Len(geoOk) : ~geoOk[k]
           /\ procLog = <<>> /\ weather_results = <<>>
           /\ io.fc_loads = 0 /\ io.fc_saves = 0 /\ io.wd_saves = 0
           /\ wdFile = pre.wd
           /\ fcFile = pre.fc
           /\ locFile = LocCache(hash_locations(pre.locations), <<>>)

\* C20 happens: both geocodings failed while a previous snapshot and a
\* previous forecast cache were there; both are what they were
C20_Witness ==
    /\ RunWithKey /\ exit = "no_locations"
    /\ Len(geoOk) = 2 /\ ~geoOk[1] /\ ~geoOk[2]
    /\ pre.wd.kind = "dict" /\ Len(pre.wd.locations) = 2
    /\ wdFile = pre.wd
    /\ pre.fc.kind = "dict" /\ fcFile = pre.fc
    /\ locFile.kind = "dict" /\ locFile.locations = <<>>

====
